---- MODULE Spec2Model ----
(***************************************************************************)
(* Model of the scenario execution engine of aiops-web-inject/app.py:      *)
(* the per-scenario background request generator                            *)
(* (send_continuous_requests), the registry operations start_requests and   *)
(* stop_requests over the three global tables request_threads, stop_events  *)
(* and recovery_mode, and the route handlers that drive them (inject_error, *)
(* recover_error, recover_all, update_config) or read them (get_status).    *)
(*                                                                         *)
(* Flask serves every HTTP request on a thread of its own, so handlers run  *)
(* concurrently with each other and with the runner threads.  A step of the *)
(* model is one access to shared state (a table read or write, an Event     *)
(* set / is_set, a Thread start / is_alive) together with the local         *)
(* computation that follows it.  Time is not modelled: a join with a        *)
(* timeout may return because the thread ended or because the timeout       *)
(* elapsed, and a sleep ends at some later step.                            *)
(*                                                                         *)
(* load_config is modelled as a read of the current configuration; a        *)
(* configuration file that cannot be read or parsed (the only way into the  *)
(* except clause of line 115) is outside the model.                         *)
(***************************************************************************)
EXTENDS Integers, Sequences, FiniteSets, TLC

(***************************************************************************)
(* Bounds of the model.                                                     *)
(***************************************************************************)
\* start_requests invocations (Event / Thread objects ever created)
MaxStarts == 2
\* cycles a runner whose budget never ends the loop is followed through
MaxCycles == 2
\* handler threads that may be serving a request at the same time
NumWorkers == 2
\* cycles a runner is followed through when it is the only one ever started
LongCycles == 30

(***************************************************************************)
(* Program constants.                                                       *)
(***************************************************************************)
\* max_requests=None, the default of send_continuous_requests / start_requests
None == -1
\* range(5): the units of one lambda_throttle burst; request_count += 5
BurstSize == 5
\* max_requests=30 passed by recover_error
RecoveryBudget == 30

\* SCENARIOS, in the insertion order in which recover_all iterates over it
ScenarioOrder ==
    <<"s3_access", "latency", "wrong_ids", "lambda_throttle", "dynamodb_throttle">>

SCENARIOS ==
    [k \in {ScenarioOrder[i] : i \in 1..Len(ScenarioOrder)} |->
        IF k = "latency" THEN "get_items"
        ELSE IF k = "wrong_ids" THEN "get_by_id"
        ELSE "post_items"]

(***************************************************************************)
(* Inputs.                                                                  *)
(***************************************************************************)
\* the scenario keys requests arrive for: one single-request scenario and
\* the burst scenario
CallKeys == {"latency", "lambda_throttle"}
\* (max_requests, is_recovery) passed to start_requests when it is called
\* directly; inject_error passes (None, False), recover_error (30, True)
StartArgs == {<<None, FALSE>>, <<0, TRUE>>, <<1, TRUE>>, <<RecoveryBudget, TRUE>>}
\* values of config['sample_api']
Urls == {"urlA", "urlB"}
\* how the external error-injection API answers a POST
ExternalOutcomes == {"200", "non200", "exception"}
\* how the n requests of one cycle end: <<returned, raised (swallowed by
\* send_single_request), still running when join(timeout=10) gave up>>
CycleOutcomes(n) ==
    {o \in (0..n) \X (0..n) \X (0..n) : o[1] + o[2] + o[3] = n}
\* two of them: all returned, one of the units raised
SomeOutcomes(n) ==
    {<<n, 0, 0>>, <<n - 1, 1, 0>>}

VARIABLES
    request_threads,  \* dict: scenario key -> thread id
    stop_events,      \* dict: scenario key -> event id
    recovery_mode,    \* dict: scenario key -> BOOLEAN
    event_set,        \* the Event objects ever created: event id -> is_set()
    threads,          \* the Thread objects ever created: thread id -> record
    sample_api,       \* config['sample_api'] as load_config returns it now
    call,             \* per handler thread: the request it is serving
    keys              \* the scenario keys requests arrive for in this run

vars == <<request_threads, stop_events, recovery_mode, event_set, threads,
          sample_api, call, keys>>

Workers == DOMAIN call

EmptyDict == [k \in {} |-> 0]

Put(d, k, v) == [x \in DOMAIN d \cup {k} |-> IF x = k THEN v ELSE d[x]]

\* a handler thread's request: the route (op) and scenario key, where the
\* handler is (pc), the arguments it passes to start_requests (max, rec),
\* the thread it joins (jt), recover_all's loop position and results (idx,
\* results) and the response (resp).  For the properties it also keeps how
\* the external API answered (ext, outs), the Event that was in the table
\* when recover_error began (pe) and the Event and Thread it created (ev, th).
Idle ==
    [op |-> "idle", key |-> "-", pc |-> "idle", max |-> None, rec |-> FALSE,
     ext |-> "-", pe |-> 0, ev |-> 0, th |-> 0, jt |-> 0, idx |-> 0,
     outs |-> EmptyDict, results |-> EmptyDict, resp |-> "-"]

(***************************************************************************)
(* Thread objects.                                                          *)
(*   pc: "created" (constructed, not started), "started" (running, line 85  *)
(*   not yet executed), "check" (at the while condition), "wait" (the       *)
(*   single request is out), "join" (the units of the burst are out and     *)
(*   being joined), "sleep", "done" (target returned).                      *)
(*   key, max: the arguments; stop_event, request_count, config: the locals *)
(*   of send_continuous_requests.  For the properties: units and sent (how  *)
(*   many requests the cycle in progress has sent, and to which URLs), last *)
(*   (while asleep: how the requests of the cycle just finished ended), prev *)
(*   (the configuration the previous cycle used), rec and own (the          *)
(*   is_recovery flag and the Event of the start_requests call that created *)
(*   the thread).                                                           *)
(***************************************************************************)
NewThread(k, m, r, e) ==
    [key |-> k, max |-> m, pc |-> "created",
     stop_event |-> 0, request_count |-> 0, config |-> "-", units |-> 0,
     sent |-> {}, last |-> <<>>, prev |-> "-", rec |-> r, own |-> e]

\* thread record r once its target has returned: its locals are gone
DeadThread(r) == [NewThread(r.key, r.max, r.rec, 0) EXCEPT !.pc = "done"]

\* Thread.is_alive()
IsAlive(t) == threads[t].pc \notin {"created", "done"}

\* a stop that sets the signal of every key
StopEveryKey(es, k) == [e \in DOMAIN es |-> TRUE]

\* a stop that makes up a set signal for a key it does not know
StopOrCreate(es, k) ==
    IF k \in DOMAIN stop_events
        THEN [es EXCEPT ![stop_events[k]] = TRUE]
        ELSE Append(es, TRUE)

\* stop_requests: if scenario_type in stop_events: stop_events[..].set()
StopRequests(es, k) ==
    IF k \in DOMAIN stop_events
        THEN [es EXCEPT ![stop_events[k]] = TRUE]
        ELSE es

\* get_status, lines 231-234: active_requests[k] as computed in this state
\* (keys without an entry in request_threads are not reported)
ActiveRequests(k) ==
    k \in DOMAIN request_threads /\ IsAlive(request_threads[k])

\* get_status, lines 235-238: recovery_requests[k] as computed in this state
RecoveryRequests(k) ==
    /\ ActiveRequests(k)
    /\ IF k \in DOMAIN recovery_mode THEN recovery_mode[k] ELSE FALSE

\* stop_events.get(scenario_type), the runner's first statement
GetStopEvent(k) == IF k \in DOMAIN stop_events THEN stop_events[k] ELSE 0

\* a budget test that lets one more cycle through
BudgetExceeded(m, n) == m # None /\ m # 0 /\ n > m

\* `max_requests and request_count >= max_requests`
BudgetReached(m, n) == m # None /\ m # 0 /\ n >= m

\* a runner that keeps the configuration its first cycle read
LoadConfigOnce(t) ==
    IF threads[t].config = "-" THEN sample_api ELSE threads[t].config

\* load_config()['sample_api'] read inside the loop body
LoadConfig(t) == sample_api

\* the units one cycle dispatches
BatchSize(k) == IF k = "lambda_throttle" THEN BurstSize ELSE 1

\* a runner that counted only the requests that returned
CountSucceeded(k, n, outcomes) == n + outcomes[1]

\* request_count after a cycle whose units ended with `outcomes`
CountAfterCycle(k, n, outcomes) ==
    IF k = "lambda_throttle" THEN n + 5 ELSE n + 1

\* the URL send_single_request builds from config and request_type
RequestUrl(cfg, rt) ==
    IF rt = "get_items" THEN <<"GET", cfg, "/items">>
    ELSE IF rt = "get_by_id" THEN <<"GET", cfg, "/items/test-id-1">>
    ELSE <<"POST", cfg, "/items">>

RequestType(k) == IF k \in DOMAIN SCENARIOS THEN SCENARIOS[k] ELSE "post_items"

\* the state after the module is loaded: empty tables, no request in service
InitTables ==
    /\ request_threads = EmptyDict
    /\ stop_events = EmptyDict
    /\ recovery_mode = EmptyDict
    /\ event_set = <<>>
    /\ threads = <<>>
    /\ sample_api = "urlA"

\* requests for one scenario key, served one at a time
Init ==
    /\ InitTables
    /\ call = <<Idle>>
    /\ keys \in {{k} : k \in CallKeys}

(***************************************************************************)
(* Requests arriving at the route layer.  A worker that is idle takes the   *)
(* next request.  Calls that may reach start_requests are admitted only     *)
(* while fewer than n Event objects exist or are about to.                  *)
(***************************************************************************)
PendingStart(w) ==
    /\ call[w].op \in {"start", "inject", "recover"}
    /\ call[w].pc # "ret"
    /\ call[w].ev = 0

CanStart(n) ==
    Len(event_set) + Cardinality({w \in Workers : PendingStart(w)}) < n

Goto(w, c) == call' = [call EXCEPT ![w] = c]

\* start_requests(k, max_requests, is_recovery) called directly
BeginStart(w, n) ==
    /\ call[w].pc = "idle"
    /\ CanStart(n)
    /\ \E k \in keys, a \in StartArgs :
          Goto(w, [Idle EXCEPT !.op = "start", !.key = k, !.pc = "sr_check",
                               !.max = a[1], !.rec = a[2]])
    /\ UNCHANGED <<request_threads, stop_events, recovery_mode, event_set,
                   threads, sample_api, keys>>

\* stop_requests(k) called directly, lines 147-150
BeginStop(w) ==
    /\ call[w].pc = "idle"
    /\ \E k \in keys :
          /\ event_set' = StopRequests(event_set, k)
          /\ Goto(w, [Idle EXCEPT !.op = "stop", !.key = k, !.pc = "ret",
                                  !.resp = "ok"])
    /\ UNCHANGED <<request_threads, stop_events, recovery_mode, threads,
                   sample_api, keys>>

\* the handler returns its response
Return(w) ==
    /\ call[w].pc = "ret"
    /\ Goto(w, Idle)
    /\ UNCHANGED <<request_threads, stop_events, recovery_mode, event_set,
                   threads, sample_api, keys>>

\* POST /api/config changing sample_api (load_config, assign, save_config)
UpdateConfig ==
    /\ \E u \in Urls \ {sample_api} : sample_api' = u
    /\ UNCHANGED <<request_threads, stop_events, recovery_mode, event_set,
                   threads, call, keys>>

(***************************************************************************)
(* start_requests, lines 119-145.                                           *)
(***************************************************************************)
\* lines 130-133 up to the join: set the event now in the table, then look
\* whether the thread now in the table is alive
SR_Check(w) ==
    /\ call[w].pc = "sr_check"
    /\ LET k == call[w].key IN
         IF k \in DOMAIN stop_events
            THEN /\ event_set' = [event_set EXCEPT ![stop_events[k]] = TRUE]
                 /\ IF k \in DOMAIN request_threads
                       /\ IsAlive(request_threads[k])
                       THEN Goto(w, [call[w] EXCEPT !.pc = "sr_join",
                                                    !.jt = request_threads[k]])
                       ELSE Goto(w, [call[w] EXCEPT !.pc = "sr_mode"])
            ELSE /\ UNCHANGED event_set
                 /\ Goto(w, [call[w] EXCEPT !.pc = "sr_mode"])
    /\ UNCHANGED <<request_threads, stop_events, recovery_mode, threads,
                   sample_api, keys>>

\* line 133: join(timeout=3) returns because the thread has ended
SR_Joined(w) ==
    /\ call[w].pc = "sr_join"
    /\ ~IsAlive(call[w].jt)
    /\ Goto(w, [call[w] EXCEPT !.pc = "sr_mode", !.jt = 0])
    /\ UNCHANGED <<request_threads, stop_events, recovery_mode, event_set,
                   threads, sample_api, keys>>

\* line 133: join(timeout=3) returns because 3 seconds have passed
SR_JoinTimeout(w) ==
    /\ call[w].pc = "sr_join"
    /\ IsAlive(call[w].jt)
    /\ Goto(w, [call[w] EXCEPT !.pc = "sr_mode", !.jt = 0])
    /\ UNCHANGED <<request_threads, stop_events, recovery_mode, event_set,
                   threads, sample_api, keys>>

\* line 136
SR_Mode(w) ==
    /\ call[w].pc = "sr_mode"
    /\ recovery_mode' = Put(recovery_mode, call[w].key, call[w].rec)
    /\ Goto(w, [call[w] EXCEPT !.pc = "sr_event"])
    /\ UNCHANGED <<request_threads, stop_events, event_set, threads,
                   sample_api, keys>>

\* a restart that clears the Event already in the table and uses it again
SR_EventReused(w) ==
    /\ call[w].pc = "sr_event"
    /\ IF call[w].key \in DOMAIN stop_events
          THEN /\ event_set' =
                     [event_set EXCEPT ![stop_events[call[w].key]] = FALSE]
               /\ UNCHANGED stop_events
               /\ Goto(w, [call[w] EXCEPT !.pc = "sr_thread",
                                          !.ev = stop_events[call[w].key]])
          ELSE /\ event_set' = Append(event_set, FALSE)
               /\ stop_events' =
                     Put(stop_events, call[w].key, Len(event_set) + 1)
               /\ Goto(w, [call[w] EXCEPT !.pc = "sr_thread",
                                          !.ev = Len(event_set) + 1])
    /\ UNCHANGED <<request_threads, recovery_mode, threads, sample_api, keys>>

\* line 139
SR_Event(w) ==
    /\ call[w].pc = "sr_event"
    /\ event_set' = Append(event_set, FALSE)
    /\ stop_events' = Put(stop_events, call[w].key, Len(event_set) + 1)
    /\ Goto(w, [call[w] EXCEPT !.pc = "sr_thread", !.ev = Len(event_set) + 1])
    /\ UNCHANGED <<request_threads, recovery_mode, threads, sample_api, keys>>

\* lines 140-144
SR_Thread(w) ==
    /\ call[w].pc = "sr_thread"
    /\ threads' = Append(threads, NewThread(call[w].key, call[w].max,
                                            call[w].rec, call[w].ev))
    /\ request_threads' = Put(request_threads, call[w].key, Len(threads) + 1)
    /\ Goto(w, [call[w] EXCEPT !.pc = "sr_start", !.th = Len(threads) + 1])
    /\ UNCHANGED <<stop_events, recovery_mode, event_set, sample_api, keys>>

\* line 145: request_threads[scenario_type].start(); starting a thread a
\* second time raises RuntimeError, which inject_error and recover_error
\* turn into a 500 response
SR_Start(w) ==
    /\ call[w].pc = "sr_start"
    /\ LET t == request_threads[call[w].key] IN
         IF threads[t].pc = "created"
            THEN /\ threads' = [threads EXCEPT ![t].pc = "started"]
                 /\ Goto(w, [call[w] EXCEPT
                                !.pc = "ret",
                                !.resp = IF call[w].op = "start" THEN "ok"
                                                                 ELSE "200"])
            ELSE /\ UNCHANGED threads
                 /\ Goto(w, [call[w] EXCEPT
                                !.pc = "ret",
                                !.resp = IF call[w].op = "start" THEN "raise"
                                                                 ELSE "500"])
    /\ UNCHANGED <<request_threads, stop_events, recovery_mode, event_set,
                   sample_api, keys>>

(***************************************************************************)
(* inject_error, lines 245-266: the external call, then start_requests on   *)
(* a 200, a 500 response otherwise.                                         *)
(***************************************************************************)
BeginInject(w, n) ==
    /\ call[w].pc = "idle"
    /\ CanStart(n)
    /\ \E k \in keys, o \in ExternalOutcomes :
          LET c == [Idle EXCEPT !.op = "inject", !.key = k, !.ext = o,
                                !.max = None, !.rec = FALSE] IN
            IF o = "200"
               THEN Goto(w, [c EXCEPT !.pc = "sr_check"])
               ELSE Goto(w, [c EXCEPT !.pc = "ret", !.resp = "500"])
    /\ UNCHANGED <<request_threads, stop_events, recovery_mode, event_set,
                   threads, sample_api, keys>>

(***************************************************************************)
(* recover_error, lines 268-294: stop_requests, the external call, then     *)
(* start_requests(max_requests=30, is_recovery=True) on a 200.              *)
(***************************************************************************)
BeginRecover(w, n) ==
    /\ call[w].pc = "idle"
    /\ CanStart(n)
    /\ \E k \in keys :
          /\ event_set' = StopRequests(event_set, k)
          /\ Goto(w, [Idle EXCEPT !.op = "recover", !.key = k,
                                  !.pc = "rec_post", !.pe = GetStopEvent(k),
                                  !.max = RecoveryBudget, !.rec = TRUE])
    /\ UNCHANGED <<request_threads, stop_events, recovery_mode, threads,
                   sample_api, keys>>

RecoverPost(w) ==
    /\ call[w].pc = "rec_post"
    /\ \E o \in ExternalOutcomes :
          IF o = "200"
             THEN Goto(w, [call[w] EXCEPT !.pc = "sr_check", !.ext = o])
             ELSE Goto(w, [call[w] EXCEPT !.pc = "ret", !.resp = "500",
                                          !.ext = o])
    /\ UNCHANGED <<request_threads, stop_events, recovery_mode, event_set,
                   threads, sample_api, keys>>

(***************************************************************************)
(* recover_all, lines 296-314: one iteration of the loop over SCENARIOS.    *)
(***************************************************************************)
RecoverAllResult(o) ==
    IF o = "200" THEN "recovered"
    ELSE IF o = "non200" THEN "failed"
    ELSE "error: message"

\* one recover_all request is admitted at a time
BeginRecoverAll(w) ==
    /\ call[w].pc = "idle"
    /\ \A v \in Workers : call[v].op # "recover_all"
    /\ Goto(w, [Idle EXCEPT !.op = "recover_all", !.pc = "ra_loop", !.idx = 1])
    /\ UNCHANGED <<request_threads, stop_events, recovery_mode, event_set,
                   threads, sample_api, keys>>

\* a loop whose first exception ends the handler with a 500 response
AbortOnException(c, k, o) ==
    IF o = "exception"
       THEN [c EXCEPT !.outs = Put(@, k, o), !.pc = "ret", !.resp = "500"]
       ELSE [c EXCEPT !.outs = Put(@, k, o),
                      !.results = Put(@, k, IF o = "200" THEN "recovered"
                                                         ELSE "failed"),
                      !.idx = @ + 1,
                      !.pc = IF c.idx = Len(ScenarioOrder)
                                THEN "ret" ELSE "ra_loop",
                      !.resp = IF c.idx = Len(ScenarioOrder)
                                THEN "200" ELSE "-"]

\* lines 310-312 and the loop header: the call c after the external call
\* for key k ended with o; after the last key, line 314 responds
RecordOutcome(c, k, o) ==
    [c EXCEPT !.outs = Put(@, k, o),
              !.results = Put(@, k, RecoverAllResult(o)),
              !.idx = @ + 1,
              !.pc = IF c.idx = Len(ScenarioOrder) THEN "ret" ELSE "ra_loop",
              !.resp = IF c.idx = Len(ScenarioOrder) THEN "200" ELSE "-"]

RecoverAllStep(w) ==
    /\ call[w].pc = "ra_loop"
    /\ LET k == ScenarioOrder[call[w].idx] IN
         /\ event_set' = StopRequests(event_set, k)
         /\ \E o \in ExternalOutcomes : Goto(w, RecordOutcome(call[w], k, o))
    /\ UNCHANGED <<request_threads, stop_events, recovery_mode, threads,
                   sample_api, keys>>

(***************************************************************************)
(* send_continuous_requests, lines 78-117, run by thread t.                 *)
(***************************************************************************)
SetThread(t, r) == threads' = [threads EXCEPT ![t] = r]

\* lines 85-87
RunnerBegin(t) ==
    /\ threads[t].pc = "started"
    /\ LET e == GetStopEvent(threads[t].key) IN
         SetThread(t, IF e = 0 THEN DeadThread(threads[t])
                               ELSE [threads[t] EXCEPT !.stop_event = e,
                                                       !.pc = "check"])
    /\ UNCHANGED <<request_threads, stop_events, recovery_mode, event_set,
                   sample_api, call, keys>>

\* a loop that ends on its budget only and never looks at the signal
LoopExitOnBudget(t) ==
    BudgetReached(threads[t].max, threads[t].request_count)

\* a loop that also ends once a cycle has been counted
LoopExitAfterCycle(t) ==
    \/ event_set[threads[t].stop_event]
    \/ BudgetReached(threads[t].max, threads[t].request_count)
    \/ threads[t].request_count > 0

\* the while condition of line 90 and the break of lines 92-94
LoopExit(t) ==
    \/ event_set[threads[t].stop_event]
    \/ BudgetReached(threads[t].max, threads[t].request_count)

RunnerExit(t) ==
    /\ threads[t].pc = "check"
    /\ LoopExit(t)
    /\ SetThread(t, DeadThread(threads[t]))
    /\ UNCHANGED <<request_threads, stop_events, recovery_mode, event_set,
                   sample_api, call, keys>>

\* lines 97-108 / 113: a cycle begins: the configuration is read and the
\* cycle's units go out, each built from that configuration.  A runner is
\* followed through its first c cycles.
RunnerCycle(t, c) ==
    /\ threads[t].pc = "check"
    /\ ~LoopExit(t)
    /\ threads[t].request_count < c * BatchSize(threads[t].key)
    /\ LET cfg == LoadConfig(t) IN
         SetThread(t, [threads[t] EXCEPT
                        !.config = cfg,
                        !.prev = threads[t].config,
                        !.units = BatchSize(threads[t].key),
                        !.sent = {RequestUrl(cfg, RequestType(threads[t].key))},
                        !.pc = IF threads[t].key = "lambda_throttle"
                                  THEN "join" ELSE "wait"])
    /\ UNCHANGED <<request_threads, stop_events, recovery_mode, event_set,
                   sample_api, call, keys>>

\* lines 113-114: the request ends one way or another, request_count += 1
RunnerResponse(t, outcomes) ==
    /\ threads[t].pc = "wait"
    /\ \E o \in outcomes :
          SetThread(t, [threads[t] EXCEPT
                           !.request_count =
                               CountAfterCycle(threads[t].key, @, o),
                           !.units = 0, !.sent = {}, !.last = o,
                           !.pc = "sleep"])
    /\ UNCHANGED <<request_threads, stop_events, recovery_mode, event_set,
                   sample_api, call, keys>>

\* lines 109-111: every unit has ended or its join(timeout=10) has elapsed,
\* request_count += 5
RunnerJoin(t, outcomes) ==
    /\ threads[t].pc = "join"
    /\ \E o \in outcomes :
          SetThread(t, [threads[t] EXCEPT
                           !.request_count =
                               CountAfterCycle(threads[t].key, @, o),
                           !.units = 0, !.sent = {}, !.last = o,
                           !.pc = "sleep"])
    /\ UNCHANGED <<request_threads, stop_events, recovery_mode, event_set,
                   sample_api, call, keys>>

\* request_count as the model keeps it when a runner is followed without
\* end: a runner whose max_requests is None or 0 never reads its count
\* (line 92 stops at `max_requests and`), so its count is kept exactly up to
\* c cycles only
FoldCount(k, m, n, c) ==
    IF (m = None \/ m = 0) /\ n > c * BatchSize(k)
        THEN c * BatchSize(k)
        ELSE n

\* lines 109-111 / 113-114 for a runner followed without end: the cycle's
\* requests have ended or the joins have timed out in one of the ways of
\* `outcomes`, the count is increased
RunnerCycleEnd(t, outcomes, c) ==
    /\ threads[t].pc \in {"wait", "join"}
    /\ \E o \in outcomes :
          /\ o[1] + o[2] + o[3] = BatchSize(threads[t].key)
          /\ SetThread(t, [threads[t] EXCEPT
                           !.request_count =
                               FoldCount(threads[t].key, threads[t].max,
                                         CountAfterCycle(threads[t].key, @, o),
                                         c),
                           !.units = 0, !.sent = {}, !.last = o,
                           !.pc = "sleep"])
    /\ UNCHANGED <<request_threads, stop_events, recovery_mode, event_set,
                   sample_api, call, keys>>

\* line 117: time.sleep(2) returns
RunnerWake(t) ==
    /\ threads[t].pc = "sleep"
    /\ SetThread(t, [threads[t] EXCEPT !.pc = "check", !.last = <<>>])
    /\ UNCHANGED <<request_threads, stop_events, recovery_mode, event_set,
                   sample_api, call, keys>>

(***************************************************************************)
(* Spec: the routes inject_error and recover_error, and stop_requests on    *)
(* its own (as recover_all calls it), called for one scenario key, one      *)
(* request at a time, with the runner threads running beside the handler.   *)
(* Every runner is followed through MaxCycles cycles.                       *)
(***************************************************************************)
Next ==
    \/ \E w \in Workers : BeginInject(w, MaxStarts)
    \/ \E w \in Workers : BeginStop(w)
    \/ \E w \in Workers : BeginRecover(w, MaxStarts)
    \/ \E w \in Workers : RecoverPost(w)
    \/ \E w \in Workers : SR_Check(w)
    \/ \E w \in Workers : SR_Joined(w)
    \/ \E w \in Workers : SR_JoinTimeout(w)
    \/ \E w \in Workers : SR_Mode(w)
    \/ \E w \in Workers : SR_Event(w)
    \/ \E w \in Workers : SR_Thread(w)
    \/ \E w \in Workers : SR_Start(w)
    \/ \E w \in Workers : Return(w)
    \/ \E t \in 1..Len(threads) : RunnerBegin(t)
    \/ \E t \in 1..Len(threads) : RunnerExit(t)
    \/ \E t \in 1..Len(threads) : RunnerCycle(t, MaxCycles)
    \/ \E t \in 1..Len(threads) : RunnerResponse(t, SomeOutcomes(1))
    \/ \E t \in 1..Len(threads) : RunnerJoin(t, SomeOutcomes(BurstSize))
    \/ \E t \in 1..Len(threads) : RunnerWake(t)

Spec == Init /\ [][Next]_vars

(***************************************************************************)
(* SpecConc: the same requests served by NumWorkers handler threads at      *)
(* once, as Flask's threaded server does.                                   *)
(***************************************************************************)
InitConc ==
    /\ InitTables
    /\ call = [w \in 1..NumWorkers |-> Idle]
    /\ keys \in {{k} : k \in CallKeys}

SpecConc == InitConc /\ [][Next]_vars

(***************************************************************************)
(* SpecEngine: start_requests called directly, once, with any of StartArgs, *)
(* and stop_requests called directly any number of times.  The one runner   *)
(* is followed through LongCycles cycles, every combination of request      *)
(* outcomes included.                                                       *)
(***************************************************************************)
NextEngine ==
    \/ \E w \in Workers : BeginStart(w, 1)
    \/ \E w \in Workers : BeginStop(w)
    \/ \E w \in Workers : SR_Check(w)
    \/ \E w \in Workers : SR_Mode(w)
    \/ \E w \in Workers : SR_Event(w)
    \/ \E w \in Workers : SR_Thread(w)
    \/ \E w \in Workers : SR_Start(w)
    \/ \E w \in Workers : Return(w)
    \/ \E t \in 1..Len(threads) : RunnerBegin(t)
    \/ \E t \in 1..Len(threads) : RunnerExit(t)
    \/ \E t \in 1..Len(threads) : RunnerCycle(t, LongCycles)
    \/ \E t \in 1..Len(threads) : RunnerResponse(t, CycleOutcomes(1))
    \/ \E t \in 1..Len(threads) : RunnerJoin(t, CycleOutcomes(BurstSize))
    \/ \E t \in 1..Len(threads) : RunnerWake(t)

SpecEngine == Init /\ [][NextEngine]_vars

(***************************************************************************)
(* SpecKeys: the requests of Spec, arriving for both scenario keys of        *)
(* CallKeys in the same run, every runner followed through its first cycle. *)
(***************************************************************************)
InitKeys ==
    /\ InitTables
    /\ call = <<Idle>>
    /\ keys = CallKeys

NextKeys ==
    \/ \E w \in Workers : BeginInject(w, MaxStarts)
    \/ \E w \in Workers : BeginStop(w)
    \/ \E w \in Workers : BeginRecover(w, MaxStarts)
    \/ \E w \in Workers : RecoverPost(w)
    \/ \E w \in Workers : SR_Check(w)
    \/ \E w \in Workers : SR_Joined(w)
    \/ \E w \in Workers : SR_JoinTimeout(w)
    \/ \E w \in Workers : SR_Mode(w)
    \/ \E w \in Workers : SR_Event(w)
    \/ \E w \in Workers : SR_Thread(w)
    \/ \E w \in Workers : SR_Start(w)
    \/ \E w \in Workers : Return(w)
    \/ \E t \in 1..Len(threads) : RunnerBegin(t)
    \/ \E t \in 1..Len(threads) : RunnerExit(t)
    \/ \E t \in 1..Len(threads) : RunnerCycle(t, 1)
    \/ \E t \in 1..Len(threads) : RunnerResponse(t, SomeOutcomes(1))
    \/ \E t \in 1..Len(threads) : RunnerJoin(t, SomeOutcomes(BurstSize))
    \/ \E t \in 1..Len(threads) : RunnerWake(t)

SpecKeys == InitKeys /\ [][NextKeys]_vars

(***************************************************************************)
(* SpecRecoverAll: recover_all served beside inject_error requests of      *)
(* which one reaches start_requests, by NumWorkers handler threads, with    *)
(* the runner running beside them through its first cycle.                  *)
(***************************************************************************)
NextRecoverAll ==
    \/ \E w \in Workers : BeginInject(w, 1)
    \/ \E w \in Workers : BeginRecoverAll(w)
    \/ \E w \in Workers : RecoverAllStep(w)
    \/ \E w \in Workers : SR_Check(w)
    \/ \E w \in Workers : SR_Mode(w)
    \/ \E w \in Workers : SR_Event(w)
    \/ \E w \in Workers : SR_Thread(w)
    \/ \E w \in Workers : SR_Start(w)
    \/ \E w \in Workers : Return(w)
    \/ \E t \in 1..Len(threads) : RunnerBegin(t)
    \/ \E t \in 1..Len(threads) : RunnerExit(t)
    \/ \E t \in 1..Len(threads) : RunnerCycle(t, 1)
    \/ \E t \in 1..Len(threads) : RunnerResponse(t, SomeOutcomes(1))
    \/ \E t \in 1..Len(threads) : RunnerJoin(t, SomeOutcomes(BurstSize))
    \/ \E t \in 1..Len(threads) : RunnerWake(t)

SpecRecoverAll == InitConc /\ [][NextRecoverAll]_vars

(***************************************************************************)
(* SpecConfig: inject_error requests for one key, of which one reaches      *)
(* start_requests, stop_requests, and POST /api/config changing the sample  *)
(* API URL at any moment, with the runner followed through MaxCycles        *)
(* cycles.                                                                  *)
(***************************************************************************)
NextConfig ==
    \/ UpdateConfig
    \/ \E w \in Workers : BeginInject(w, 1)
    \/ \E w \in Workers : BeginStop(w)
    \/ \E w \in Workers : SR_Check(w)
    \/ \E w \in Workers : SR_Mode(w)
    \/ \E w \in Workers : SR_Event(w)
    \/ \E w \in Workers : SR_Thread(w)
    \/ \E w \in Workers : SR_Start(w)
    \/ \E w \in Workers : Return(w)
    \/ \E t \in 1..Len(threads) : RunnerBegin(t)
    \/ \E t \in 1..Len(threads) : RunnerExit(t)
    \/ \E t \in 1..Len(threads) : RunnerCycle(t, MaxCycles)
    \/ \E t \in 1..Len(threads) : RunnerResponse(t, SomeOutcomes(1))
    \/ \E t \in 1..Len(threads) : RunnerJoin(t, SomeOutcomes(BurstSize))
    \/ \E t \in 1..Len(threads) : RunnerWake(t)

SpecConfig == Init /\ [][NextConfig]_vars

(***************************************************************************)
(* SpecReplace: inject_error and stop_requests for one key, one request at  *)
(* a time, with every runner followed without end.  Each runner thread      *)
(* keeps being scheduled: a request returns or times out (timeout=5), a     *)
(* join returns or times out (timeout=10) and a sleep ends, so a thread     *)
(* that can take a step eventually takes one.  Nothing is assumed about     *)
(* the requests that arrive.                                                *)
(***************************************************************************)
RunnerStep(t) ==
    /\ t \in 1..Len(threads)
    /\ \/ RunnerBegin(t)
       \/ RunnerExit(t)
       \/ RunnerCycle(t, LongCycles)
       \/ RunnerCycleEnd(t, SomeOutcomes(1) \cup SomeOutcomes(BurstSize),
                         MaxCycles)
       \/ RunnerWake(t)

NextReplace ==
    \/ \E w \in Workers : BeginInject(w, MaxStarts)
    \/ \E w \in Workers : BeginStop(w)
    \/ \E w \in Workers : SR_Check(w)
    \/ \E w \in Workers : SR_Joined(w)
    \/ \E w \in Workers : SR_JoinTimeout(w)
    \/ \E w \in Workers : SR_Mode(w)
    \/ \E w \in Workers : SR_Event(w)
    \/ \E w \in Workers : SR_Thread(w)
    \/ \E w \in Workers : SR_Start(w)
    \/ \E w \in Workers : Return(w)
    \/ \E t \in 1..MaxStarts : RunnerStep(t)

RunnersScheduled == \A t \in 1..MaxStarts : WF_vars(RunnerStep(t))

SpecReplace == Init /\ [][NextReplace]_vars /\ RunnersScheduled

(***************************************************************************)
(* SpecRun: start_requests called directly, once, with any of StartArgs,    *)
(* stop_requests called any number of times and the sample API URL changed  *)
(* at any moment.  The one runner is followed without end, every            *)
(* combination of request outcomes included, and its thread keeps being     *)
(* scheduled.                                                               *)
(***************************************************************************)
RunnerStepAny(t) ==
    /\ t \in 1..Len(threads)
    /\ \/ RunnerBegin(t)
       \/ RunnerExit(t)
       \/ RunnerCycle(t, LongCycles)
       \/ RunnerCycleEnd(t, CycleOutcomes(1) \cup CycleOutcomes(BurstSize),
                         MaxCycles)
       \/ RunnerWake(t)

NextRun ==
    \/ UpdateConfig
    \/ \E w \in Workers : BeginStart(w, 1)
    \/ \E w \in Workers : BeginStop(w)
    \/ \E w \in Workers : SR_Check(w)
    \/ \E w \in Workers : SR_Mode(w)
    \/ \E w \in Workers : SR_Event(w)
    \/ \E w \in Workers : SR_Thread(w)
    \/ \E w \in Workers : SR_Start(w)
    \/ \E w \in Workers : Return(w)
    \/ RunnerStepAny(1)

SpecRun == Init /\ [][NextRun]_vars /\ WF_vars(RunnerStepAny(1))

(***************************************************************************)
(* Properties.                                                              *)
(***************************************************************************)
Threads == 1..Len(threads)

\* thread t is inside the while loop of send_continuous_requests
InLoop(t) == threads[t].pc \in {"check", "wait", "join", "sleep"}

\* thread t is inside the loop and the signal it checks is not set: its next
\* check lets it issue a further request
CanIssue(t) == InLoop(t) /\ ~event_set[threads[t].stop_event]

\* no request is in service
NoCall == \A w \in Workers : call[w].pc = "idle"

\* C1: for every scenario key, in every reachable state, at most one runner
\* of that key is in its loop and able to issue a further request, also when
\* start_requests calls for the key overlap or the join on the old thread
\* times out.
C1_AtMostOneRunner ==
    \A k \in CallKeys :
        Cardinality({t \in Threads : threads[t].key = k /\ CanIssue(t)}) <= 1

\* the signal thread t checks, or will check once it has run line 85, is set
\* or the thread has ended: it issues no request after its next check
Retired(t) ==
    \/ threads[t].pc = "done"
    \/ /\ threads[t].pc = "started"
       /\ event_set[GetStopEvent(threads[t].key)]
    \/ /\ InLoop(t)
       /\ event_set[threads[t].stop_event]

\* inject_error has been served twice for the key, the second request after
\* the first had returned, and nothing has set the second signal since
TwoStartsReturned ==
    /\ NoCall
    /\ Len(threads) = 2
    /\ threads[2].pc # "created"
    /\ ~event_set[2]

\* C2: after two start_requests calls in succession for a key, the runner of
\* the first call stops and the runner of the second keeps running,
\* wherever the first runner was when the second call was made.
C2_SecondStartLeavesOneRunner ==
    TwoStartsReturned => Retired(1) /\ ~Retired(2)

\* C3: a runner started with max_requests = N >= 1 never has more than N
\* counted requests, the burst scenario included.
C3_BudgetNotExceeded ==
    \A t \in Threads :
        threads[t].max >= 1 => threads[t].request_count <= threads[t].max

\* C4: a runner started with max_requests = 0 leaves the loop at its first
\* check: it never starts a cycle and counts no request.
C4_ZeroBudgetIssuesNothing ==
    \A t \in Threads :
        threads[t].max = 0 =>
            /\ threads[t].pc \in {"created", "started", "check"}
            /\ threads[t].request_count = 0
            /\ threads[t].units = 0

\* this step is a call of stop_requests(k): on its own or as the first
\* statement of recover_error
StopCalled(k) ==
    \E w \in Workers :
        /\ call[w].pc = "idle"
        /\ call'[w].op \in {"stop", "recover"}
        /\ call'[w].key = k

\* thread t is the runner registered for its key
Registered(t) ==
    /\ threads[t].key \in DOMAIN request_threads
    /\ request_threads[threads[t].key] = t

\* C5: a stop_requests(key) that arrives while the key's runner is in its
\* per-cycle sleep sets the signal that runner checks, and a sleeping runner
\* whose signal is set wakes, checks and ends without starting another
\* cycle: no request of that runner follows the stop.
C5_StopDuringSleep ==
    [][\A t \in Threads :
          /\ (threads[t].pc = "sleep" /\ Registered(t)
                /\ StopCalled(threads[t].key))
             => event_set'[threads[t].stop_event]
          /\ (threads[t].pc \in {"sleep", "check"}
                /\ event_set[threads[t].stop_event])
             => threads'[t].pc \in {"sleep", "check", "done"}]_vars

\* C6: a cycle of a lambda_throttle runner sends 5 requests and adds 5 to
\* request_count, a cycle of any other runner sends 1 and adds 1, however
\* the requests of the cycle end (returned, raised, still running when the
\* join gave up); nothing is sent and nothing is counted outside a cycle.
C6_CycleCounts ==
    [][\A t \in Threads :
          LET n == IF threads[t].key = "lambda_throttle" THEN 5 ELSE 1
              before == threads[t].pc
              after == threads'[t].pc
          IN  /\ (before = "check" /\ after \in {"wait", "join"})
                   => /\ threads'[t].units = n
                      /\ threads'[t].request_count = threads[t].request_count
              /\ (before \in {"wait", "join"} /\ after = "sleep")
                   => /\ threads[t].units = n
                      /\ threads'[t].request_count
                             = threads[t].request_count + n
              /\ (before \notin {"check", "wait", "join"} /\ after # "done")
                   => /\ threads'[t].units = 0
                      /\ threads'[t].request_count = threads[t].request_count
              /\ before \in {"wait", "join"} => after \in {before, "sleep"}]_vars

\* a burst cycle in which two requests returned, two raised and one was
\* still running at the join timeout has been counted as 5, after an earlier
\* cycle; a single-request cycle whose request raised has been counted as 1
C6_Witness ==
    \E t \in Threads :
        /\ threads[t].pc = "sleep"
        /\ \/ /\ threads[t].key = "lambda_throttle"
              /\ threads[t].last = <<2, 2, 1>>
              /\ threads[t].request_count = 10
           \/ /\ threads[t].key = "latency"
              /\ threads[t].last = <<0, 1, 0>>
              /\ threads[t].request_count = 2

\* the keys recover_all has gone through so far
KeysDone(c) == {ScenarioOrder[i] : i \in 1..(c.idx - 1)}

\* the results of a recover_all call cover exactly the keys gone through,
\* each with the value its external call's outcome calls for, and the call
\* responds only after the last key, with a 200
ResultsRight(c) ==
    /\ DOMAIN c.results = KeysDone(c)
    /\ \A k \in DOMAIN c.results :
          c.results[k] = CASE c.outs[k] = "200" -> "recovered"
                           [] c.outs[k] = "non200" -> "failed"
                           [] c.outs[k] = "exception" -> "error: message"
    /\ c.pc = "ret" => /\ DOMAIN c.results = DOMAIN SCENARIOS
                       /\ c.resp = "200"

\* C7: in every registry state recover_all goes through every key of
\* SCENARIOS, whatever the outcome of the external call of the keys before,
\* and returns a mapping from all of them to 'recovered', 'failed' or
\* 'error: ...' as the key's external call returned 200, returned another
\* status or raised; no step of recover_all creates a Thread or an Event or
\* changes a table.
C7_RecoverAll ==
    [][\A w \in Workers :
          /\ call'[w].op = "recover_all" => ResultsRight(call'[w])
          /\ (call[w].op = "recover_all" /\ call'[w] # call[w])
             => /\ UNCHANGED <<request_threads, stop_events, recovery_mode,
                               threads>>
                /\ Len(event_set') = Len(event_set)
                /\ call[w].pc = "ra_loop"
                      => call'[w].idx = call[w].idx + 1]_vars

\* recover_all called before any scenario was started has returned: the
\* external call raised for the first key, returned 200 for the second and
\* another status for the third
C7_Witness ==
    \E w \in Workers :
        /\ call[w].op = "recover_all"
        /\ call[w].pc = "ret"
        /\ Len(event_set) = 0
        /\ call[w].results["s3_access"] = "error: message"
        /\ call[w].results["latency"] = "recovered"
        /\ call[w].results["wrong_ids"] = "failed"
        /\ DOMAIN call[w].results = DOMAIN SCENARIOS

\* C8: every cycle of a runner sends all its requests (1, or the 5 of a
\* burst) to the sample API URL configured at the moment the cycle begins,
\* whatever the cycles before used, and a change of the URL while a cycle's
\* requests are out does not change where they went.
C8_ConfigReadEachCycle ==
    [][\A t \in Threads :
          /\ (threads[t].pc = "check" /\ threads'[t].pc \in {"wait", "join"})
             => /\ threads'[t].sent =
                      {RequestUrl(sample_api, RequestType(threads[t].key))}
                /\ threads'[t].units = BatchSize(threads[t].key)
                /\ threads'[t].prev = threads[t].config
          /\ (threads[t].pc \in {"wait", "join"}
                /\ threads'[t].pc = threads[t].pc)
             => threads'[t].sent = threads[t].sent]_vars

\* the URL was changed from urlA to urlB after a cycle of a burst runner:
\* the 5 requests of the next cycle are out, all to urlB, and the URL has
\* been changed back since
C8_Witness ==
    \E t \in Threads :
        /\ threads[t].pc = "join"
        /\ threads[t].prev = "urlA"
        /\ threads[t].units = 5
        /\ threads[t].sent = {<<"POST", "urlB", "/items">>}
        /\ sample_api = "urlA"

\* the call is inside start_requests or has created an Event or a Thread
InStartRequests(c) ==
    \/ c.pc \in {"sr_check", "sr_join", "sr_mode", "sr_event", "sr_thread",
                 "sr_start"}
    \/ c.ev # 0
    \/ c.th # 0

\* the call has created an Event and a Thread, and a runner created for the
\* key by this call or after it has been started with the arguments m and r
Launched(c, m, r) ==
    /\ c.ev # 0
    /\ c.th # 0
    /\ \E t \in c.th..Len(threads) :
          /\ threads[t].key = c.key
          /\ threads[t].pc # "created"
          /\ threads[t].max = m
          /\ threads[t].rec = r

\* C9: inject_error and recover_error enter start_requests only after the
\* external call returned 200.  When a handler whose external call returned
\* 200 responds 200, a fresh runner of the key has been started, unbounded
\* and injecting for inject_error, with a budget of 30 and recovering for
\* recover_error, and recover_error has set the signal the key had when it
\* was called.  A handler whose external call failed or raised responds 500
\* and has created neither a Thread nor an Event.
C9_LaunchAfterSuccess ==
    \A w \in Workers :
        LET c == call[w] IN
            c.op \in {"inject", "recover"} =>
                /\ InStartRequests(c) => c.ext = "200"
                /\ (c.pc = "ret" /\ c.ext # "200")
                   => c.ev = 0 /\ c.th = 0 /\ c.resp = "500"
                /\ (c.pc = "ret" /\ c.resp = "200")
                   => /\ c.ext = "200"
                      /\ c.op = "inject" => Launched(c, None, FALSE)
                      /\ c.op = "recover" => Launched(c, 30, TRUE)
                      /\ (c.op = "recover" /\ c.pe # 0) => event_set[c.pe]

\* C10: stop_requests(key) for a key that has no signal, because
\* start_requests has never installed one, returns normally and changes
\* nothing: no table gets an entry, no Event or Thread is created or
\* touched.  The state a later start_requests(key) finds is therefore the
\* one a first start finds.
C10_StopUnknownKeyIsNoOp ==
    [][\A w \in Workers :
          (/\ call[w].pc = "idle"
           /\ call'[w].op = "stop"
           /\ call'[w].key \notin DOMAIN stop_events)
          => /\ UNCHANGED <<request_threads, stop_events, recovery_mode,
                            event_set, threads>>
             /\ call'[w].pc = "ret"
             /\ call'[w].resp = "ok"]_vars

\* stop_requests has been called for a key before any start_requests and
\* has returned: there is still no Event and no Thread
C10_Witness ==
    /\ \E w \in Workers :
          /\ call[w].op = "stop"
          /\ call[w].pc = "ret"
          /\ call[w].key \notin DOMAIN stop_events
    /\ event_set = <<>>
    /\ threads = <<>>

\* C11: the signal a runner checks in its loop is the Event that the
\* start_requests call which created the runner installed for it, never one
\* installed by a later call, however the runner thread is scheduled
\* relative to later start_requests calls.
C11_RunnerChecksOwnSignal ==
    \A t \in Threads :
        InLoop(t) => threads[t].stop_event = threads[t].own

\* a later start_requests call for the key of thread t has returned: it has
\* created and started another Thread after t
Replaced(t) ==
    /\ t < Len(threads)
    /\ threads[t].pc # "created"
    /\ \E u \in (t + 1)..Len(threads) :
          /\ threads[u].key = threads[t].key
          /\ threads[u].pc # "created"

\* the target of thread t has returned
Stopped(t) == t <= Len(threads) /\ threads[t].pc = "done"

\* C12: every runner that a later start_requests call for its key has
\* replaced eventually ends, when the runner threads keep being scheduled,
\* also when the join of the replacing call timed out.
C12_ReplacedRunnerStops ==
    \A t \in 1..MaxStarts :
        [](Replaced(t) => <>Stopped(t))

C14_RecoveryReportedOnlyForRecoveryRunner ==
    \A k \in CallKeys :
        RecoveryRequests(k)
        => /\ IsAlive(request_threads[k])
           /\ threads[request_threads[k]].rec

\* thread t has the requests of a cycle out
Issuing(t) == t <= Len(threads) /\ threads[t].pc \in {"wait", "join"}

\* thread t is in its loop and the signal it checks is set
Cancelled(t) ==
    t <= Len(threads) /\ InLoop(t) /\ event_set[threads[t].stop_event]

\* thread t is in its loop, without a budget
Unbounded(t) == t <= Len(threads) /\ InLoop(t) /\ threads[t].max = None

\* C15: a runner thread ends only at the loop-condition check, and only
\* with its signal set or with a budget that its count has reached: not
\* after a request that raised, a burst unit that outlived its join, or a
\* change of the configuration.  A runner without a budget therefore stays
\* in its loop while its signal is not set, and when its thread keeps being
\* scheduled it sends the requests of another cycle again and again until
\* the signal is set.
C15_ExitOnlyBySignalOrBudget ==
    /\ [][\A t \in Threads :
            (threads[t].pc # "done" /\ threads'[t].pc = "done")
            => /\ threads[t].pc = "check"
               /\ \/ event_set[threads[t].stop_event]
                  \/ /\ threads[t].max # None
                     /\ threads[t].request_count >= threads[t].max]_vars
    /\ [](Unbounded(1)
            => <>(Issuing(1) \/ Cancelled(1)))

\* a burst runner without a budget sleeps after its second cycle or a later
\* one, in which all 5 units were still running when their joins timed out;
\* the URL had been changed before that cycle; its signal is not set
C15_Witness ==
    \E t \in Threads :
        /\ threads[t].pc = "sleep"
        /\ threads[t].max = None
        /\ threads[t].last = <<0, 0, 5>>
        /\ threads[t].request_count = 10
        /\ threads[t].prev = "urlA"
        /\ threads[t].config = "urlB"
        /\ ~event_set[threads[t].stop_event]

\* thread t has been started as a recovery runner: budget 30, recovering
RecoveryRunner(t) ==
    /\ t <= Len(threads)
    /\ threads[t].pc # "created"
    /\ threads[t].max = RecoveryBudget
    /\ threads[t].rec

\* C16: a recovery runner (max_requests = 30) whose thread keeps being
\* scheduled eventually ends unless its signal is set; when it ends with its
\* signal not set it has counted exactly 30 requests; and while a thread
\* that has ended is the one registered for its key, get_status reports the
\* key neither in active_requests nor in recovery_requests.
C16_RecoveryRunnerStops ==
    /\ [](RecoveryRunner(1) => <>(Stopped(1) \/ Cancelled(1)))
    /\ [][\A t \in Threads :
            (/\ threads[t].pc # "done"
             /\ threads'[t].pc = "done"
             /\ threads[t].max = RecoveryBudget
             /\ ~event_set[threads[t].stop_event])
            => threads[t].request_count = 30]_vars
    /\ [](\A t \in Threads :
            (threads[t].pc = "done" /\ Registered(t))
            => /\ ~ActiveRequests(threads[t].key)
               /\ ~RecoveryRequests(threads[t].key))

\* the recovery runner of the burst scenario has ended and the signal of its
\* key has never been set: it ended on its budget, and get_status reports
\* the key as not active
C16_Witness ==
    \E t \in Threads :
        /\ threads[t].pc = "done"
        /\ threads[t].key = "lambda_throttle"
        /\ threads[t].max = 30
        /\ threads[t].rec
        /\ Registered(t)
        /\ ~event_set[stop_events[threads[t].key]]
        /\ ~ActiveRequests(threads[t].key)
        /\ ~RecoveryRequests(threads[t].key)

\* the entry of key k in table d, "absent" when there is none
Entry(d, k) == IF k \in DOMAIN d THEN <<d[k]>> ELSE <<>>

\* the scenario key of the start_requests / stop_requests call that worker
\* w takes a step of
StepKey(w) == IF call[w].pc = "idle" THEN call'[w].key ELSE call[w].key

\* C17: a step of inject_error, recover_error, start_requests or
\* stop_requests for key k1 leaves, for every other key k2, the entries of
\* the three tables, every Thread of k2 (its position in the loop and its
\* count included) and every Event other than the one registered for k1 as
\* they were.
C17_OtherKeysUntouched ==
    [][\A w \in Workers :
          call'[w] # call[w]
          => /\ \A k2 \in CallKeys \ {StepKey(w)} :
                  /\ Entry(request_threads', k2) = Entry(request_threads, k2)
                  /\ Entry(stop_events', k2) = Entry(stop_events, k2)
                  /\ Entry(recovery_mode', k2) = Entry(recovery_mode, k2)
                  /\ \A t \in Threads :
                        threads[t].key = k2 => threads'[t] = threads[t]
             /\ \A e \in 1..Len(event_set) :
                  event_set'[e] # event_set[e]
                  => Entry(stop_events, StepKey(w)) = <<e>>]_vars

\* a runner of 'latency' is in its loop after its first cycle with its
\* signal not set, although 'lambda_throttle' has since been started and
\* its signal set
C17_Witness ==
    \E t \in Threads, u \in Threads :
        /\ t < u
        /\ threads[t].key = "latency"
        /\ InLoop(t)
        /\ threads[t].request_count >= 1
        /\ ~event_set[threads[t].stop_event]
        /\ threads[u].key = "lambda_throttle"
        /\ threads[u].pc # "created"
        /\ event_set[stop_events["lambda_throttle"]]

\* C18: an Event that is set stays set, a restart leaves every existing
\* Event as it is and adds a new one, and a Thread whose target has
\* returned stays as it is: it is never started again and sends nothing.
C18_CancellationMonotonic ==
    [][/\ Len(event_set') >= Len(event_set)
       /\ \A e \in 1..Len(event_set) : event_set[e] => event_set'[e]
       /\ \A w \in Workers :
             (call[w].pc = "sr_event" /\ call'[w].pc = "sr_thread")
             => /\ event_set' = Append(event_set, FALSE)
                /\ stop_events'[call[w].key] = Len(event_set')
       /\ \A t \in Threads :
             threads[t].pc = "done" => threads'[t] = threads[t]]_vars

\* the key has been restarted after its first runner had been cancelled and
\* had ended: the first Event is still set, the second is not, the first
\* Thread is still ended and the second is in its loop
C18_Witness ==
    /\ Len(event_set) = 2
    /\ event_set[1]
    /\ ~event_set[2]
    /\ Len(threads) = 2
    /\ threads[1].pc = "done"
    /\ InLoop(2)
    /\ threads[2].request_count >= 1

====
